---- MODULE Spec2Model ----
(***************************************************************************)
(* A model of the go-tavily client: client construction (New), the four    *)
(* operations (Search, Extract, Crawl, Map), the presets of helpers.go,    *)
(* the request executor (doRequest) and the error type (APIError).         *)
(*                                                                         *)
(* Go strings are TLA+ strings, except URLs, which are sequences of        *)
(* tokens ("/" is a token of its own) so that TrimSuffix and the           *)
(* concatenation baseURL+endpoint are computed as the code computes them.  *)
(* A Go value of type `any` or `*bool` is a tagged record (Nil, BoolV,     *)
(* StrV, ChanV).  An error is the sequence of the layers of its unwrap     *)
(* chain, outermost first; the nil error is the empty sequence.            *)
(***************************************************************************)
EXTENDS Integers, Sequences, FiniteSets, TLC

\* ------------------------------------------------------------------ bounds

\* The longest URL list handed to Extract.
MaxURLs == 2
\* The largest number of result records in a response body.
MaxResultRecords == 2
\* The largest status code the classification is checked for.
MaxStatusCode == 600

\* ------------------------------------------------------- program constants

DefaultBaseURL == <<"https://api.tavily.com">>
DefaultMaxResults == 5
DefaultSearchDepth == "basic"
DefaultTopic == "general"
DefaultFormat == "text"
ClientSource == "go-tavily"
StatusOK == 200

\* ------------------------------------------------------------- Go values

Nil == [kind |-> "nil", b |-> FALSE, s |-> ""]
BoolV(b) == [kind |-> "bool", b |-> b, s |-> ""]
StrV(s) == [kind |-> "string", b |-> FALSE, s |-> s]
\* A value encoding/json cannot encode (a channel, a func).
ChanV == [kind |-> "chan", b |-> FALSE, s |-> ""]

BoolPtr(b) == BoolV(b)

\* ----------------------------------------------------------------- errors

NoError == <<>>

\* A layer of an error's chain: the Go type, for a wrapping layer the text of
\* its format before ": %w", and what Error() returns.
APIErrorOf(statusCode, message) ==
    <<[type |-> "*APIError", format |-> "", StatusCode |-> statusCode,
       Message |-> message]>>

\* An error of another package (encoding/json, net/url, context, io).
Foreign(type, message) ==
    <<[type |-> type, format |-> "", StatusCode |-> 0, Message |-> message]>>

\* A faulty variant of Errorf: the cause is formatted with %v, so the chain is lost.
ErrorfNoWrap(prefix, err) ==
    <<[type |-> "*errors.errorString", format |-> prefix, StatusCode |-> 0,
       Message |-> prefix \o ": " \o err[1].Message]>>

\* fmt.Errorf(prefix + ": %w", err)
Errorf(prefix, err) ==
    <<[type |-> "*fmt.wrapError", format |-> prefix, StatusCode |-> 0,
       Message |-> prefix \o ": " \o err[1].Message]>> \o err

\* err.Error()
ErrorText(err) == err[1].Message

\* errors.As(err, &apiErr): the first *APIError of the unwrap chain.
RECURSIVE ErrorsAs(_)
ErrorsAs(err) ==
    IF err = <<>> THEN [ok |-> FALSE, StatusCode |-> 0, Message |-> ""]
    ELSE IF Head(err).type = "*APIError"
         THEN [ok |-> TRUE, StatusCode |-> Head(err).StatusCode,
               Message |-> Head(err).Message]
         ELSE ErrorsAs(Tail(err))

\* err.(*APIError): the type assertion on the error value itself.
TypeAssertAPIError(err) == err /= <<>> /\ err[1].type = "*APIError"

\* Whether err, or an error it wraps, was made by fmt.Errorf(format + ": %w").
HasLayer(err, format) ==
    \E i \in 1..Len(err) : err[i].type = "*fmt.wrapError" /\ err[i].format = format

\* ------------------------------------------------- APIError's predicates

IsRateLimit(e) == e.StatusCode = 429

\* A faulty variant of IsForbidden: 432 and 433 are forgotten.
IsForbiddenOnly403(e) == e.StatusCode = 403

IsForbidden(e) == e.StatusCode = 403 \/ e.StatusCode = 432 \/ e.StatusCode = 433

IsUnauthorized(e) == e.StatusCode = 401

IsBadRequest(e) == e.StatusCode = 400

\* ------------------------------------------------------------- defaults

defaultString(value, defaultValue) ==
    IF value = "" THEN defaultValue ELSE value

\* A faulty variant of defaultInt: every non-positive value is taken as unset.
defaultIntNonPositive(value, defaultValue) ==
    IF value <= 0 THEN defaultValue ELSE value

defaultInt(value, defaultValue) ==
    IF value = 0 THEN defaultValue ELSE value

\* ------------------------------------------------- encoding/json, requests

\* One entry per struct field: the Go field, its json name, whether the tag
\* says omitempty, and the kind of its Go type.
Tag(field, name, omitempty, type) ==
    [field |-> field, name |-> name, omitempty |-> omitempty, type |-> type]

SearchRequestTags == <<
    Tag("Query", "query", FALSE, "string"),
    Tag("SearchDepth", "search_depth", TRUE, "string"),
    Tag("Topic", "topic", TRUE, "string"),
    Tag("TimeRange", "time_range", TRUE, "string"),
    Tag("Days", "days", TRUE, "int"),
    Tag("MaxResults", "max_results", TRUE, "int"),
    Tag("IncludeDomains", "include_domains", TRUE, "slice"),
    Tag("ExcludeDomains", "exclude_domains", TRUE, "slice"),
    Tag("IncludeAnswer", "include_answer", TRUE, "any"),
    Tag("IncludeRawContent", "include_raw_content", TRUE, "any"),
    Tag("IncludeImages", "include_images", TRUE, "ptr"),
    Tag("IncludeImageDescriptions", "include_image_descriptions", TRUE, "ptr"),
    Tag("MaxTokens", "max_tokens", TRUE, "int"),
    Tag("ChunksPerSource", "chunks_per_source", TRUE, "int"),
    Tag("Country", "country", TRUE, "string"),
    Tag("Timeout", "timeout", TRUE, "int") >>

ExtractRequestTags == <<
    Tag("URLs", "urls", FALSE, "slice"),
    Tag("IncludeImages", "include_images", TRUE, "ptr"),
    Tag("ExtractDepth", "extract_depth", TRUE, "string"),
    Tag("Format", "format", TRUE, "string"),
    Tag("Timeout", "timeout", TRUE, "int") >>

CrawlRequestTags == <<
    Tag("URL", "url", FALSE, "string"),
    Tag("MaxDepth", "max_depth", TRUE, "int"),
    Tag("MaxBreadth", "max_breadth", TRUE, "int"),
    Tag("Limit", "limit", TRUE, "int"),
    Tag("Instructions", "instructions", TRUE, "string"),
    Tag("ExtractDepth", "extract_depth", TRUE, "string"),
    Tag("SelectPaths", "select_paths", TRUE, "slice"),
    Tag("SelectDomains", "select_domains", TRUE, "slice"),
    Tag("ExcludePaths", "exclude_paths", TRUE, "slice"),
    Tag("ExcludeDomains", "exclude_domains", TRUE, "slice"),
    Tag("AllowExternal", "allow_external", TRUE, "ptr"),
    Tag("IncludeImages", "include_images", TRUE, "ptr"),
    Tag("Categories", "categories", TRUE, "slice"),
    Tag("Format", "format", TRUE, "string"),
    Tag("Timeout", "timeout", TRUE, "int") >>

MapRequestTags == <<
    Tag("URL", "url", FALSE, "string"),
    Tag("MaxDepth", "max_depth", TRUE, "int"),
    Tag("MaxBreadth", "max_breadth", TRUE, "int"),
    Tag("Limit", "limit", TRUE, "int"),
    Tag("Instructions", "instructions", TRUE, "string"),
    Tag("SelectPaths", "select_paths", TRUE, "slice"),
    Tag("SelectDomains", "select_domains", TRUE, "slice"),
    Tag("ExcludePaths", "exclude_paths", TRUE, "slice"),
    Tag("ExcludeDomains", "exclude_domains", TRUE, "slice"),
    Tag("AllowExternal", "allow_external", TRUE, "ptr"),
    Tag("Categories", "categories", TRUE, "slice"),
    Tag("Timeout", "timeout", TRUE, "int") >>

\* A faulty variant of IsEmptyValue: a false held by a pointer or an
\* interface is dropped as a plain bool's false is.
IsEmptyValueOfBool(type, v) ==
    CASE type = "string" -> v = ""
      [] type = "int" -> v = 0
      [] type = "slice" -> Len(v) = 0
      [] OTHER -> v.kind = "nil" \/ (v.kind = "bool" /\ ~v.b)

\* encoding/json's isEmptyValue: what omitempty drops.  An interface or a
\* pointer is empty only when it is nil, whatever it holds.
IsEmptyValue(type, v) ==
    CASE type = "string" -> v = ""
      [] type = "int" -> v = 0
      [] type = "slice" -> Len(v) = 0
      [] OTHER -> v.kind = "nil"

\* Whether encoding/json can encode the value of a field.
Encodable(type, v) ==
    type \notin {"any", "ptr"} \/ v.kind /= "chan"

\* json.Marshal of a request struct: ok is FALSE when a field cannot be
\* encoded; body maps each json name that is written to the field's value.
Marshal(req, tags) ==
    LET written == {i \in 1..Len(tags) :
                      ~tags[i].omitempty
                      \/ ~IsEmptyValue(tags[i].type, req[tags[i].field])}
        index(n) == CHOOSE i \in written : tags[i].name = n
    IN  [ok   |-> \A i \in written : Encodable(tags[i].type, req[tags[i].field]),
         body |-> [n \in {tags[i].name : i \in written} |->
                      req[tags[index(n)].field]]]

\* ---------------------------------------------------------------- options

ZeroSearchOptions ==
    [SearchDepth |-> "", Topic |-> "", TimeRange |-> "", Days |-> 0,
     MaxResults |-> 0, IncludeDomains |-> <<>>, ExcludeDomains |-> <<>>,
     IncludeAnswer |-> Nil, IncludeRawContent |-> Nil, IncludeImages |-> Nil,
     IncludeImageDescriptions |-> Nil, MaxTokens |-> 0, ChunksPerSource |-> 0,
     Country |-> "", Timeout |-> 0]

ZeroExtractOptions ==
    [IncludeImages |-> Nil, ExtractDepth |-> "", Format |-> "", Timeout |-> 0]

ZeroCrawlOptions ==
    [MaxDepth |-> 0, MaxBreadth |-> 0, Limit |-> 0, Instructions |-> "",
     ExtractDepth |-> "", SelectPaths |-> <<>>, SelectDomains |-> <<>>,
     ExcludePaths |-> <<>>, ExcludeDomains |-> <<>>, AllowExternal |-> Nil,
     IncludeImages |-> Nil, Categories |-> <<>>, Format |-> "", Timeout |-> 0]

ZeroMapOptions ==
    [MaxDepth |-> 0, MaxBreadth |-> 0, Limit |-> 0, Instructions |-> "",
     SelectPaths |-> <<>>, SelectDomains |-> <<>>, ExcludePaths |-> <<>>,
     ExcludeDomains |-> <<>>, AllowExternal |-> Nil, Categories |-> <<>>,
     Timeout |-> 0]

\* An options argument: a nil pointer, or a pointer to the struct v.
NilOptions(zero) == [isNil |-> TRUE, v |-> zero]
Options(v) == [isNil |-> FALSE, v |-> v]

\* ------------------------------------------------------------------ state

VARIABLES
    env,            \* the value of TAVILY_API_KEY in the process environment
    newArgs,        \* the arguments New was called with
    client,         \* the Client New returned
    pc,             \* per call: "idle", "inflight", "reading" or "done"
    call,           \* per call: the entry point invoked and its arguments
    request,        \* per call: the *http.Request handed to httpClient.Do
    response,       \* per call: the *http.Response httpClient.Do returned, and
                    \* whether io.ReadAll has read its body ("no", "all", "failed")
    bodyOpen,       \* per call: whether resp.Body is open
    result,         \* per call: what the entry point returned
    transportCalls, \* per call: the number of httpClient.Do invocations
    probe           \* the APIError a status predicate is applied to

vars == <<env, newArgs, client, pc, call, request, response, bodyOpen,
          result, transportCalls, probe>>

\* The goroutines that may call into the one shared client.
Calls == {"g1", "g2"}
\* The goroutine of the sequential specification.
MainCalls == {"g1"}

\* ------------------------------------------------------------------- New

\* strings.TrimSuffix(s, "/") on a URL: one trailing "/" is removed.
\* A faulty variant of TrimSuffix: every trailing slash is removed, as
\* strings.TrimRight does.
RECURSIVE TrimRight(_)
TrimRight(s) ==
    IF Len(s) > 0 /\ s[Len(s)] = "/" THEN TrimRight(SubSeq(s, 1, Len(s) - 1)) ELSE s

TrimSuffix(s) ==
    IF Len(s) > 0 /\ s[Len(s)] = "/" THEN SubSeq(s, 1, Len(s) - 1) ELSE s

\* A faulty variant of ResolveAPIKey: the environment comes first.
ResolveAPIKeyEnvFirst(apiKey, environ) ==
    IF environ = "" THEN apiKey ELSE environ

\* if apiKey == "" { apiKey = os.Getenv("TAVILY_API_KEY") }
ResolveAPIKey(apiKey, environ) ==
    IF apiKey = "" THEN environ ELSE apiKey

ZeroClientOptions == [BaseURL |-> <<>>, HTTPClient |-> "nil", Timeout |-> 0]

\* The default timeout, in seconds.
DefaultTimeout == 60

New(apiKey, environ, opts) ==
    LET key == ResolveAPIKey(apiKey, environ)
        o == IF opts.isNil THEN ZeroClientOptions ELSE opts.v
        baseURL == IF o.BaseURL = <<>> THEN DefaultBaseURL ELSE o.BaseURL
        timeout == IF o.Timeout = 0 THEN DefaultTimeout ELSE o.Timeout
        httpClient == IF o.HTTPClient = "nil"
                      THEN [custom |-> FALSE, Timeout |-> timeout]
                      ELSE [custom |-> TRUE, Timeout |-> 0]
    IN  [baseURL    |-> TrimSuffix(baseURL),
         apiKey     |-> key,
         httpClient |-> httpClient,
         headers    |-> [h \in {"Content-Type", "Authorization", "X-Client-Source"} |->
                            CASE h = "Content-Type" -> "application/json"
                              [] h = "Authorization" -> "Bearer " \o key
                              [] OTHER -> ClientSource]]

\* ------------------------------------------------------------- doRequest

\* A token net/url refuses in a URL (a control character).
InvalidURLToken == "\\x7f"

\* url.Parse, as http.NewRequestWithContext applies it.
ParseableURL(u) == \A i \in 1..Len(u) : u[i] /= InvalidURLToken

NoRequest == [method |-> "", url |-> <<>>, header |-> <<>>, body |-> <<>>, ctx |-> ""]

MissingKeyMessage ==
    "missing API key - provide via parameter or TAVILY_API_KEY environment variable"

\* A faulty variant of doRequestBuild: http.NewRequest, which takes no context.
doRequestBuildNoContext(c, ctx, endpoint, requestBody, tags) ==
    LET m == Marshal(requestBody, tags)
        url == c.baseURL \o endpoint
    IN  IF ~m.ok
        THEN [sent |-> FALSE, request |-> NoRequest,
              err |-> Errorf("failed to marshal request",
                             Foreign("*json.UnsupportedTypeError", "json: unsupported type"))]
        ELSE IF ~ParseableURL(url)
        THEN [sent |-> FALSE, request |-> NoRequest,
              err |-> Errorf("failed to create request",
                             Foreign("*url.Error", "net/url: invalid control character in URL"))]
        ELSE [sent |-> TRUE, err |-> NoError,
              request |-> [method |-> "POST", url |-> url,
                           header |-> [k \in DOMAIN c.headers |-> c.headers[k]],
                           body |-> m.body, ctx |-> "live"]]

\* doRequest from the serialization of the payload to the request with its
\* headers set (json.Marshal, http.NewRequestWithContext, req.Header.Set).
doRequestBuild(c, ctx, endpoint, requestBody, tags) ==
    LET m == Marshal(requestBody, tags)
        url == c.baseURL \o endpoint
    IN  IF ~m.ok
        THEN [sent |-> FALSE, request |-> NoRequest,
              err |-> Errorf("failed to marshal request",
                             Foreign("*json.UnsupportedTypeError", "json: unsupported type"))]
        ELSE IF ~ParseableURL(url)
        THEN [sent |-> FALSE, request |-> NoRequest,
              err |-> Errorf("failed to create request",
                             Foreign("*url.Error", "net/url: invalid control character in URL"))]
        ELSE [sent |-> TRUE, err |-> NoError,
              request |-> [method |-> "POST", url |-> url,
                           header |-> [k \in DOMAIN c.headers |-> c.headers[k]],
                           body |-> m.body, ctx |-> ctx]]

\* A faulty variant of doRequestSend: the API key is not checked.
doRequestSendNoKeyCheck(c, ctx, endpoint, requestBody, tags) ==
    doRequestBuild(c, ctx, endpoint, requestBody, tags)

\* doRequest up to the call of c.httpClient.Do(req): sent tells whether Do is
\* called, with request; otherwise err is what doRequest returns.
doRequestSend(c, ctx, endpoint, requestBody, tags) ==
    IF c.apiKey = ""
    THEN [sent |-> FALSE, request |-> NoRequest,
          err |-> APIErrorOf(401, MissingKeyMessage)]
    ELSE doRequestBuild(c, ctx, endpoint, requestBody, tags)

\* ------------------------------------------------------- response bodies

\* A response body, as encoding/json sees it: syntax is "ok" for a JSON
\* object, "empty" for no bytes, "invalid" for text that is not JSON; detail
\* is the value under "detail"; the other fields are the values under the
\* keys of the response schemas (results: a JSON array, or a scalar when
\* resultsIsArray is FALSE).
NoDetail == [kind |-> "absent", error |-> Nil]
DetailObject(error) == [kind |-> "object", error |-> error]
DetailString == [kind |-> "string", error |-> Nil]

JSONObjectResult(i) ==
    [kind |-> "object", s |-> "",
     title |-> "T" \o ToString(i), url |-> "https://e.com/" \o ToString(i),
     content |-> "c" \o ToString(i), raw_content |-> "raw" \o ToString(i)]

JSONStringResult(i) ==
    [kind |-> "string", s |-> "https://e.com/" \o ToString(i),
     title |-> "", url |-> "", content |-> "", raw_content |-> ""]

BodyOf(syntax, detail, query, answer, base_url, resultsIsArray, results) ==
    [syntax |-> syntax, detail |-> detail, query |-> query, answer |-> answer,
     base_url |-> base_url, resultsIsArray |-> resultsIsArray, results |-> results]

EmptyBody == BodyOf("empty", NoDetail, "", "", "", TRUE, <<>>)
InvalidBody == BodyOf("invalid", NoDetail, "", "", "", TRUE, <<>>)
ErrorBody(detail) == BodyOf("ok", detail, "", "", "", TRUE, <<>>)

\* A faulty variant of parseAPIError: the detail is used even when it is empty.
parseAPIErrorNoFallback(statusCode, respData) ==
    LET parsed == /\ respData.syntax = "ok"
                  /\ respData.detail.kind \in {"absent", "object"}
                  /\ respData.detail.error.kind \in {"nil", "string"}
    IN  APIErrorOf(statusCode, IF parsed THEN respData.detail.error.s ELSE "unknown error")

\* parseAPIError: json.Unmarshal into struct{Detail struct{Error string}}
\* fails on text that is not JSON and on a value of the wrong JSON type.
parseAPIError(statusCode, respData) ==
    LET parsed == /\ respData.syntax = "ok"
                  /\ respData.detail.kind \in {"absent", "object"}
                  /\ respData.detail.error.kind \in {"nil", "string"}
        detailError == IF respData.detail.error.kind = "string"
                       THEN respData.detail.error.s ELSE ""
    IN  APIErrorOf(statusCode,
                   IF parsed /\ detailError /= "" THEN detailError ELSE "unknown error")

\* -------------------------------------------------------------- responses

NilResponse == [isNil |-> TRUE, v |-> <<>>]
Response(v) == [isNil |-> FALSE, v |-> v]

\* The JSON type of the elements of "results" in the schema of each operation.
ResultKind(op) == IF op = "Map" THEN "string" ELSE "object"

\* A faulty variant of Unmarshal: the results come out in reverse order.
UnmarshalReversed(op, respData) ==
    LET ok == /\ respData.syntax = "ok"
              /\ respData.resultsIsArray
              /\ \A i \in 1..Len(respData.results) :
                    respData.results[i].kind = ResultKind(op)
        rs == [i \in 1..Len(respData.results) |->
                respData.results[Len(respData.results) + 1 - i]]
        v == CASE op = "Search" ->
                    [Query |-> respData.query, Answer |-> respData.answer,
                     Results |-> [i \in 1..Len(rs) |->
                                    [Title |-> rs[i].title, URL |-> rs[i].url,
                                     Content |-> rs[i].content,
                                     RawContent |-> rs[i].raw_content]]]
               [] op = "Extract" ->
                    [Results |-> [i \in 1..Len(rs) |->
                                    [URL |-> rs[i].url,
                                     RawContent |-> rs[i].raw_content]]]
               [] op = "Crawl" ->
                    [BaseURL |-> respData.base_url,
                     Results |-> [i \in 1..Len(rs) |->
                                    [URL |-> rs[i].url,
                                     RawContent |-> rs[i].raw_content]]]
               [] OTHER ->
                    [BaseURL |-> respData.base_url,
                     Results |-> [i \in 1..Len(rs) |-> rs[i].s]]
    IN  [ok |-> ok, v |-> v]

\* json.Unmarshal(respData, &resp) for the response struct of op: an error
\* on text that is not JSON and on a value of the wrong JSON type.
Unmarshal(op, respData) ==
    LET ok == /\ respData.syntax = "ok"
              /\ respData.resultsIsArray
              /\ \A i \in 1..Len(respData.results) :
                    respData.results[i].kind = ResultKind(op)
        rs == respData.results
        v == CASE op = "Search" ->
                    [Query |-> respData.query, Answer |-> respData.answer,
                     Results |-> [i \in 1..Len(rs) |->
                                    [Title |-> rs[i].title, URL |-> rs[i].url,
                                     Content |-> rs[i].content,
                                     RawContent |-> rs[i].raw_content]]]
               [] op = "Extract" ->
                    [Results |-> [i \in 1..Len(rs) |->
                                    [URL |-> rs[i].url,
                                     RawContent |-> rs[i].raw_content]]]
               [] op = "Crawl" ->
                    [BaseURL |-> respData.base_url,
                     Results |-> [i \in 1..Len(rs) |->
                                    [URL |-> rs[i].url,
                                     RawContent |-> rs[i].raw_content]]]
               [] OTHER ->
                    [BaseURL |-> respData.base_url,
                     Results |-> [i \in 1..Len(rs) |-> rs[i].s]]
    IN  [ok |-> ok, v |-> v]

\* doRequest from the return of c.httpClient.Do(req) with a response:
\* io.ReadAll, the status check, the decoding.  readOK is whether io.ReadAll
\* got the whole body.
doRequestReceive(op, resp, readOK) ==
    IF ~readOK
    THEN [err |-> Errorf("failed to read response",
                         Foreign("*errors.errorString", "unexpected EOF")),
          resp |-> NilResponse]
    ELSE IF resp.StatusCode /= StatusOK
    THEN [err |-> parseAPIError(resp.StatusCode, resp.body), resp |-> NilResponse]
    ELSE LET u == Unmarshal(op, resp.body)
         IN  IF ~u.ok
             THEN [err |-> Errorf("failed to unmarshal response",
                                  Foreign("*json.SyntaxError", "invalid character")),
                   resp |-> NilResponse]
             ELSE [err |-> NoError, resp |-> Response(u.v)]

\* A faulty variant of doRequestFailed: the transport's error is returned as it is.
doRequestFailedBare ==
    [err |-> Foreign("*url.Error", "Post: transport error"), resp |-> NilResponse]

\* doRequest when c.httpClient.Do(req) returns an error.
doRequestFailed ==
    [err |-> Errorf("request failed", Foreign("*url.Error", "Post: transport error")),
     resp |-> NilResponse]

\* ------------------------------------------------------- core operations

Endpoint(op) ==
    CASE op = "Search" -> <<"/", "search">>
      [] op = "Extract" -> <<"/", "extract">>
      [] op = "Crawl" -> <<"/", "crawl">>
      [] OTHER -> <<"/", "map">>

FailedPrefix(op) ==
    CASE op = "Search" -> "search failed"
      [] op = "Extract" -> "extract failed"
      [] op = "Crawl" -> "crawl failed"
      [] OTHER -> "map failed"

RequestTags(op) ==
    CASE op = "Search" -> SearchRequestTags
      [] op = "Extract" -> ExtractRequestTags
      [] op = "Crawl" -> CrawlRequestTags
      [] OTHER -> MapRequestTags

\* The SearchRequest Search builds.
SearchRequest(query, optsArg) ==
    LET opts == IF optsArg.isNil THEN ZeroSearchOptions ELSE optsArg.v
    IN  [Query |-> query,
         SearchDepth |-> defaultString(opts.SearchDepth, DefaultSearchDepth),
         Topic |-> defaultString(opts.Topic, DefaultTopic),
         TimeRange |-> opts.TimeRange,
         Days |-> opts.Days,
         MaxResults |-> defaultInt(opts.MaxResults, DefaultMaxResults),
         IncludeDomains |-> opts.IncludeDomains,
         ExcludeDomains |-> opts.ExcludeDomains,
         IncludeAnswer |-> opts.IncludeAnswer,
         IncludeRawContent |-> opts.IncludeRawContent,
         IncludeImages |-> opts.IncludeImages,
         IncludeImageDescriptions |-> opts.IncludeImageDescriptions,
         MaxTokens |-> opts.MaxTokens,
         ChunksPerSource |-> opts.ChunksPerSource,
         Country |-> opts.Country,
         Timeout |-> defaultInt(opts.Timeout, 60)]

\* The ExtractRequest Extract builds.
ExtractRequest(urls, optsArg) ==
    LET opts == IF optsArg.isNil THEN ZeroExtractOptions ELSE optsArg.v
    IN  [URLs |-> urls,
         IncludeImages |-> opts.IncludeImages,
         ExtractDepth |-> defaultString(opts.ExtractDepth, DefaultSearchDepth),
         Format |-> defaultString(opts.Format, DefaultFormat),
         Timeout |-> defaultInt(opts.Timeout, 60)]

\* The CrawlRequest Crawl builds.
CrawlRequest(url, optsArg) ==
    LET opts == IF optsArg.isNil THEN ZeroCrawlOptions ELSE optsArg.v
    IN  [URL |-> url,
         MaxDepth |-> defaultInt(opts.MaxDepth, 1),
         MaxBreadth |-> defaultInt(opts.MaxBreadth, 20),
         Limit |-> defaultInt(opts.Limit, 50),
         Instructions |-> opts.Instructions,
         ExtractDepth |-> defaultString(opts.ExtractDepth, DefaultSearchDepth),
         SelectPaths |-> opts.SelectPaths,
         SelectDomains |-> opts.SelectDomains,
         ExcludePaths |-> opts.ExcludePaths,
         ExcludeDomains |-> opts.ExcludeDomains,
         AllowExternal |-> opts.AllowExternal,
         IncludeImages |-> opts.IncludeImages,
         Categories |-> opts.Categories,
         Format |-> defaultString(opts.Format, DefaultFormat),
         Timeout |-> defaultInt(opts.Timeout, 60)]

\* The MapRequest Map builds.
MapRequest(url, optsArg) ==
    LET opts == IF optsArg.isNil THEN ZeroMapOptions ELSE optsArg.v
    IN  [URL |-> url,
         MaxDepth |-> defaultInt(opts.MaxDepth, 1),
         MaxBreadth |-> defaultInt(opts.MaxBreadth, 20),
         Limit |-> defaultInt(opts.Limit, 50),
         Instructions |-> opts.Instructions,
         SelectPaths |-> opts.SelectPaths,
         SelectDomains |-> opts.SelectDomains,
         ExcludePaths |-> opts.ExcludePaths,
         ExcludeDomains |-> opts.ExcludeDomains,
         AllowExternal |-> opts.AllowExternal,
         Categories |-> opts.Categories,
         Timeout |-> defaultInt(opts.Timeout, 60)]

\* A faulty variant of Validate: Extract does not check its URL list.
ValidateNotExtract(op, target) ==
    CASE op \in {"Search", "Extract"} -> NoError
      [] OTHER ->
            IF target = "" THEN APIErrorOf(400, "URL is required") ELSE NoError

\* A faulty variant of Validate: Search rejects an empty query like the others.
ValidateAlsoQuery(op, target) ==
    CASE op = "Search" ->
            IF target = "" THEN APIErrorOf(400, "query is required") ELSE NoError
      [] op = "Extract" ->
            IF Len(target) = 0
            THEN APIErrorOf(400, "at least one URL is required") ELSE NoError
      [] OTHER ->
            IF target = "" THEN APIErrorOf(400, "URL is required") ELSE NoError

\* A faulty variant of Validate: Extract rejects an empty URL in its list too.
ValidateEachURL(op, target) ==
    CASE op = "Search" -> NoError
      [] op = "Extract" ->
            IF Len(target) = 0 \/ \E i \in 1..Len(target) : target[i] = ""
            THEN APIErrorOf(400, "at least one URL is required") ELSE NoError
      [] OTHER ->
            IF target = "" THEN APIErrorOf(400, "URL is required") ELSE NoError

\* The check each operation makes of its required argument before anything
\* else: the error it returns at once, or NoError.  Search makes none.
Validate(op, target) ==
    CASE op = "Search" -> NoError
      [] op = "Extract" ->
            IF Len(target) = 0
            THEN APIErrorOf(400, "at least one URL is required") ELSE NoError
      [] OTHER ->
            IF target = "" THEN APIErrorOf(400, "URL is required") ELSE NoError

\* The request struct of op for its arguments.
RequestOf(op, target, optsArg) ==
    CASE op = "Search" -> SearchRequest(target, optsArg)
      [] op = "Extract" -> ExtractRequest(target, optsArg)
      [] op = "Crawl" -> CrawlRequest(target, optsArg)
      [] OTHER -> MapRequest(target, optsArg)

\* What an operation returns for the outcome r of doRequest:
\* if err != nil { return nil, fmt.Errorf("search failed: %w", err) }; return &resp, nil
\* A faulty variant of OpReturn: the address of the result variable is
\* returned with the error too.
OpReturnWithResult(op, r) ==
    IF r.err /= NoError
    THEN [resp |-> Response(r.resp.v), err |-> Errorf(FailedPrefix(op), r.err)]
    ELSE [resp |-> r.resp, err |-> NoError]

OpReturn(op, r) ==
    IF r.err /= NoError
    THEN [resp |-> NilResponse, err |-> Errorf(FailedPrefix(op), r.err)]
    ELSE [resp |-> r.resp, err |-> NoError]

\* ---------------------------------------------------------------- presets

\* The context string GetSearchContext formats from the results.
RECURSIVE Sources(_, _)
Sources(results, i) ==
    IF i > Len(results) THEN ""
    ELSE "Source " \o ToString(i) \o ": " \o results[i].Title
         \o "\nURL: " \o results[i].URL
         \o "\nContent: " \o results[i].Content \o "\n\n"
         \o Sources(results, i + 1)

\* What the entry point returns for what its operation returned: only
\* GetSearchContext adds something of its own.
EntryReturn(entry, query, r) ==
    IF entry /= "GetSearchContext" THEN r
    ELSE IF r.err /= NoError
         THEN [resp |-> Response(""), err |-> Errorf("search failed", r.err)]
         ELSE [resp |-> Response("Search query: " \o query \o "\n\n"
                                 \o Sources(r.resp.v.Results, 1)),
               err |-> NoError]

SearchWithAnswerOptions ==
    Options([ZeroSearchOptions EXCEPT !.IncludeAnswer = BoolV(TRUE), !.MaxResults = 10])

\* A faulty variant of SearchNewsOptions: the search depth is left unset.
SearchNewsOptionsNoDepth(days) ==
    Options([ZeroSearchOptions EXCEPT
                !.Topic = "news", !.Days = days,
                !.MaxResults = 15, !.IncludeAnswer = BoolV(TRUE)])

SearchNewsOptions(days) ==
    Options([ZeroSearchOptions EXCEPT
                !.Topic = "news", !.SearchDepth = "advanced", !.Days = days,
                !.MaxResults = 15, !.IncludeAnswer = BoolV(TRUE)])

ExtractWithImagesOptions ==
    Options([ZeroExtractOptions EXCEPT
                !.IncludeImages = BoolPtr(TRUE), !.Format = "markdown",
                !.ExtractDepth = "advanced"])

\* A faulty variant of CrawlDocumentationOptions: a negative page count is
\* taken as unset.
CrawlDocumentationOptionsClamped(maxPages) ==
    Options([ZeroCrawlOptions EXCEPT
                !.MaxDepth = 3, !.Limit = IF maxPages < 0 THEN 0 ELSE maxPages,
                !.Categories = <<"Documentation", "Developer">>,
                !.SelectPaths = <<"/docs/*", "/api/*", "/guide/*", "/tutorial/*">>,
                !.Format = "markdown", !.AllowExternal = BoolPtr(FALSE)])

CrawlDocumentationOptions(maxPages) ==
    Options([ZeroCrawlOptions EXCEPT
                !.MaxDepth = 3, !.Limit = maxPages,
                !.Categories = <<"Documentation", "Developer">>,
                !.SelectPaths = <<"/docs/*", "/api/*", "/guide/*", "/tutorial/*">>,
                !.Format = "markdown", !.AllowExternal = BoolPtr(FALSE)])

MapSiteOptions ==
    Options([ZeroMapOptions EXCEPT !.MaxDepth = 2, !.Limit = 100])

GetSearchContextOptions(maxTokens) ==
    Options([ZeroSearchOptions EXCEPT
                !.SearchDepth = "advanced", !.MaxResults = 5,
                !.IncludeRawContent = StrV("text"), !.MaxTokens = maxTokens])

\* ----------------------------------------------------------------- inputs

\* The options that differ from zero in at most one field, the field taking
\* the values given for it.
VaryOne(zero, values) ==
    {zero} \cup UNION {{[zero EXCEPT ![f] = v] : v \in values[f]} : f \in DOMAIN values}

OptionsArgs(zero, set) == {NilOptions(zero)} \cup {Options(v) : v \in set}

Ints == {-1, 7}
TriState == {BoolV(TRUE), BoolV(FALSE)}
Lists == {<<"a.com">>}

SearchOptionsSet ==
    VaryOne(ZeroSearchOptions,
            [SearchDepth |-> {"advanced"}, Topic |-> {"news"}, TimeRange |-> {"week"},
             Days |-> Ints, MaxResults |-> Ints, IncludeDomains |-> Lists,
             ExcludeDomains |-> Lists,
             IncludeAnswer |-> {BoolV(TRUE), BoolV(FALSE), StrV("advanced"), ChanV},
             IncludeRawContent |-> {BoolV(TRUE), StrV("markdown")},
             IncludeImages |-> TriState, IncludeImageDescriptions |-> TriState,
             MaxTokens |-> Ints, ChunksPerSource |-> Ints, Country |-> {"france"},
             Timeout |-> Ints])
    \cup {[SearchDepth |-> "advanced", Topic |-> "finance", TimeRange |-> "d",
           Days |-> 3, MaxResults |-> -2, IncludeDomains |-> <<"a.com", "b.com">>,
           ExcludeDomains |-> <<"c.com">>, IncludeAnswer |-> StrV("basic"),
           IncludeRawContent |-> BoolV(FALSE), IncludeImages |-> BoolV(FALSE),
           IncludeImageDescriptions |-> BoolV(TRUE), MaxTokens |-> 100,
           ChunksPerSource |-> 2, Country |-> "japan", Timeout |-> 9]}

ExtractOptionsSet ==
    VaryOne(ZeroExtractOptions,
            [IncludeImages |-> TriState, ExtractDepth |-> {"advanced"},
             Format |-> {"markdown"}, Timeout |-> Ints])
    \cup {[IncludeImages |-> BoolV(FALSE), ExtractDepth |-> "advanced",
           Format |-> "markdown", Timeout |-> -5]}

CrawlOptionsSet ==
    VaryOne(ZeroCrawlOptions,
            [MaxDepth |-> Ints, MaxBreadth |-> Ints, Limit |-> Ints,
             Instructions |-> {"only docs"}, ExtractDepth |-> {"advanced"},
             SelectPaths |-> {<<"/docs/*">>}, SelectDomains |-> Lists,
             ExcludePaths |-> {<<"/private/*">>}, ExcludeDomains |-> Lists,
             AllowExternal |-> TriState, IncludeImages |-> TriState,
             Categories |-> {<<"Blog">>}, Format |-> {"markdown"}, Timeout |-> Ints])
    \cup {[MaxDepth |-> 2, MaxBreadth |-> -4, Limit |-> 3, Instructions |-> "x",
           ExtractDepth |-> "advanced", SelectPaths |-> <<"/a">>,
           SelectDomains |-> <<"a.com">>, ExcludePaths |-> <<"/b">>,
           ExcludeDomains |-> <<"b.com">>, AllowExternal |-> BoolV(FALSE),
           IncludeImages |-> BoolV(TRUE), Categories |-> <<"Blog", "About">>,
           Format |-> "markdown", Timeout |-> 11]}

MapOptionsSet ==
    VaryOne(ZeroMapOptions,
            [MaxDepth |-> Ints, MaxBreadth |-> Ints, Limit |-> Ints,
             Instructions |-> {"only docs"}, SelectPaths |-> {<<"/docs/*">>},
             SelectDomains |-> Lists, ExcludePaths |-> {<<"/private/*">>},
             ExcludeDomains |-> Lists, AllowExternal |-> TriState,
             Categories |-> {<<"Blog">>}, Timeout |-> Ints])
    \cup {[MaxDepth |-> -2, MaxBreadth |-> 4, Limit |-> 3, Instructions |-> "x",
           SelectPaths |-> <<"/a">>, SelectDomains |-> <<"a.com">>,
           ExcludePaths |-> <<"/b">>, ExcludeDomains |-> <<"b.com">>,
           AllowExternal |-> BoolV(TRUE), Categories |-> <<"Blog", "About">>,
           Timeout |-> 11]}

Contexts == {"live", "cancelled"}
Queries == {"", "golang"}
URLStrings == {"", "https://example.com"}
URLLists == UNION {[1..n -> URLStrings] : n \in 0..MaxURLs}
IntArgs == {-1, 0, 7}

APIKeys == {"", "tvly-key"}
Environs == {"", "tvly-env-key"}
ClientOptionsArgs ==
    OptionsArgs(ZeroClientOptions,
                {[ZeroClientOptions EXCEPT !.BaseURL = <<"http://srv", InvalidURLToken>>],
                 [BaseURL |-> <<"http://srv", "/", "/">>, HTTPClient |-> "custom",
                  Timeout |-> 30]})

\* What the server may answer.
StatusCodes == {200, 201, 401}
ResultLists(kind) ==
    {[i \in 1..n |-> IF kind = "object" THEN JSONObjectResult(i) ELSE JSONStringResult(i)] :
        n \in 1..MaxResultRecords}
Bodies ==
    {EmptyBody, InvalidBody, ErrorBody(NoDetail), ErrorBody(DetailString),
     ErrorBody(DetailObject(StrV(""))),
     ErrorBody(DetailObject(StrV("Invalid API key provided"))),
     BodyOf("ok", NoDetail, "x", "", "", FALSE, <<>>)}
    \cup {BodyOf("ok", NoDetail, "x", "an answer", "https://e.com", TRUE, rs) :
            rs \in ResultLists("object") \cup ResultLists("string")}

\* ---------------------------------------------------------------- actions

NoCall == [entry |-> "", op |-> "", ctx |-> "", target |-> "", opts |-> <<>>, arg |-> 0]
NoResponse == [StatusCode |-> 0, body |-> EmptyBody, read |-> "no"]
NoResult == [resp |-> NilResponse, err |-> NoError]
NoProbe == [StatusCode |-> 0, applied |-> FALSE, IsUnauthorized |-> FALSE,
            IsRateLimit |-> FALSE, IsForbidden |-> FALSE, IsBadRequest |-> FALSE]

\* The state after client := New(apiKey, opts) in an environment.
Init ==
    /\ env \in Environs
    /\ newArgs \in [apiKey : APIKeys, opts : ClientOptionsArgs]
    /\ client = New(newArgs.apiKey, env, newArgs.opts)
    /\ pc = [c \in Calls |-> "idle"]
    /\ call = [c \in Calls |-> NoCall]
    /\ request = [c \in Calls |-> NoRequest]
    /\ response = [c \in Calls |-> NoResponse]
    /\ bodyOpen = [c \in Calls |-> FALSE]
    /\ result = [c \in Calls |-> NoResult]
    /\ transportCalls = [c \in Calls |-> 0]
    /\ probe = NoProbe

\* Goroutine c calls the entry point: the operation op runs with target and
\* optsArg up to its return or up to its call of c.httpClient.Do.
Begin(c, entry, op, ctx, target, optsArg, arg) ==
    LET invalid == Validate(op, target)
        d == doRequestSend(client, ctx, Endpoint(op),
                           RequestOf(op, target, optsArg), RequestTags(op))
    IN  /\ call' = [call EXCEPT ![c] =
                      [entry |-> entry, op |-> op, ctx |-> ctx, target |-> target,
                       opts |-> optsArg, arg |-> arg]]
        /\ IF invalid /= NoError
           THEN /\ pc' = [pc EXCEPT ![c] = "done"]
                /\ result' = [result EXCEPT ![c] =
                                EntryReturn(entry, target,
                                            [resp |-> NilResponse, err |-> invalid])]
                /\ UNCHANGED <<request, transportCalls>>
           ELSE IF ~d.sent
           THEN /\ pc' = [pc EXCEPT ![c] = "done"]
                /\ result' = [result EXCEPT ![c] =
                                EntryReturn(entry, target,
                                            OpReturn(op, [err |-> d.err,
                                                          resp |-> NilResponse]))]
                /\ UNCHANGED <<request, transportCalls>>
           ELSE /\ pc' = [pc EXCEPT ![c] = "inflight"]
                /\ request' = [request EXCEPT ![c] = d.request]
                /\ transportCalls' = [transportCalls EXCEPT ![c] = @ + 1]
                /\ UNCHANGED result
        /\ UNCHANGED <<env, newArgs, client, response, bodyOpen, probe>>

Search(c) ==
    /\ pc[c] = "idle"
    /\ \E ctx \in Contexts, query \in Queries,
       opts \in OptionsArgs(ZeroSearchOptions, SearchOptionsSet) :
        Begin(c, "Search", "Search", ctx, query, opts, 0)

Extract(c) ==
    /\ pc[c] = "idle"
    /\ \E ctx \in Contexts, urls \in URLLists,
       opts \in OptionsArgs(ZeroExtractOptions, ExtractOptionsSet) :
        Begin(c, "Extract", "Extract", ctx, urls, opts, 0)

Crawl(c) ==
    /\ pc[c] = "idle"
    /\ \E ctx \in Contexts, url \in URLStrings,
       opts \in OptionsArgs(ZeroCrawlOptions, CrawlOptionsSet) :
        Begin(c, "Crawl", "Crawl", ctx, url, opts, 0)

Map(c) ==
    /\ pc[c] = "idle"
    /\ \E ctx \in Contexts, url \in URLStrings,
       opts \in OptionsArgs(ZeroMapOptions, MapOptionsSet) :
        Begin(c, "Map", "Map", ctx, url, opts, 0)

SearchSimple(c) ==
    /\ pc[c] = "idle"
    /\ \E ctx \in Contexts, query \in Queries :
        Begin(c, "SearchSimple", "Search", ctx, query,
              NilOptions(ZeroSearchOptions), 0)

SearchWithAnswer(c) ==
    /\ pc[c] = "idle"
    /\ \E ctx \in Contexts, query \in Queries :
        Begin(c, "SearchWithAnswer", "Search", ctx, query, SearchWithAnswerOptions, 0)

SearchNews(c) ==
    /\ pc[c] = "idle"
    /\ \E ctx \in Contexts, query \in Queries, days \in IntArgs :
        Begin(c, "SearchNews", "Search", ctx, query, SearchNewsOptions(days), days)

ExtractSimple(c) ==
    /\ pc[c] = "idle"
    /\ \E ctx \in Contexts, url \in URLStrings :
        Begin(c, "ExtractSimple", "Extract", ctx, <<url>>,
              NilOptions(ZeroExtractOptions), 0)

ExtractWithImages(c) ==
    /\ pc[c] = "idle"
    /\ \E ctx \in Contexts, urls \in URLLists :
        Begin(c, "ExtractWithImages", "Extract", ctx, urls, ExtractWithImagesOptions, 0)

CrawlDocumentation(c) ==
    /\ pc[c] = "idle"
    /\ \E ctx \in Contexts, url \in URLStrings, maxPages \in IntArgs :
        Begin(c, "CrawlDocumentation", "Crawl", ctx, url,
              CrawlDocumentationOptions(maxPages), maxPages)

MapSite(c) ==
    /\ pc[c] = "idle"
    /\ \E ctx \in Contexts, url \in URLStrings :
        Begin(c, "MapSite", "Map", ctx, url, MapSiteOptions, 0)

GetSearchContext(c) ==
    /\ pc[c] = "idle"
    /\ \E ctx \in Contexts, query \in Queries, maxTokens \in IntArgs :
        Begin(c, "GetSearchContext", "Search", ctx, query,
              GetSearchContextOptions(maxTokens), maxTokens)

\* c.httpClient.Do(req) returns an error: a network failure, a timeout, or a
\* context that is or gets cancelled.
\* A faulty variant of DoFails: a failed attempt is made once more before
\* the error is returned.
DoFailsRetries(c) ==
    /\ pc[c] = "inflight"
    /\ IF transportCalls[c] < 2
       THEN /\ transportCalls' = [transportCalls EXCEPT ![c] = @ + 1]
            /\ UNCHANGED <<pc, result>>
       ELSE /\ pc' = [pc EXCEPT ![c] = "done"]
            /\ result' = [result EXCEPT ![c] =
                            EntryReturn(call[c].entry, call[c].target,
                                        OpReturn(call[c].op, doRequestFailed))]
            /\ UNCHANGED transportCalls
    /\ UNCHANGED <<env, newArgs, client, call, request, response, bodyOpen, probe>>

DoFails(c) ==
    /\ pc[c] = "inflight"
    /\ pc' = [pc EXCEPT ![c] = "done"]
    /\ result' = [result EXCEPT ![c] =
                    EntryReturn(call[c].entry, call[c].target,
                                OpReturn(call[c].op, doRequestFailed))]
    /\ UNCHANGED <<env, newArgs, client, call, request, response, bodyOpen,
                   transportCalls, probe>>

\* c.httpClient.Do(req) returns a response: the transport, like net/http's,
\* answers no request whose context is already cancelled.
DoResponds(c) ==
    /\ pc[c] = "inflight"
    /\ request[c].ctx = "live"
    /\ \E status \in StatusCodes, body \in Bodies :
          response' = [response EXCEPT ![c] =
                          [StatusCode |-> status, body |-> body, read |-> "no"]]
    /\ bodyOpen' = [bodyOpen EXCEPT ![c] = TRUE]
    /\ pc' = [pc EXCEPT ![c] = "reading"]
    /\ UNCHANGED <<env, newArgs, client, call, request, result, transportCalls, probe>>

\* A faulty variant of Finish: the body is closed after the reading, not
\* by a deferred call, so a failed read returns before the close.
FinishCloseAfterRead(c) ==
    /\ pc[c] = "reading"
    /\ \E readOK \in BOOLEAN :
          /\ response' = [response EXCEPT ![c].read = IF readOK THEN "all" ELSE "failed"]
          /\ result' = [result EXCEPT ![c] =
                        EntryReturn(call[c].entry, call[c].target,
                                    OpReturn(call[c].op,
                                             doRequestReceive(call[c].op, response[c],
                                                              readOK)))]
          /\ bodyOpen' = [bodyOpen EXCEPT ![c] = ~readOK]
    /\ pc' = [pc EXCEPT ![c] = "done"]
    /\ UNCHANGED <<env, newArgs, client, call, request, transportCalls, probe>>

\* A faulty variant of Finish: the calls read into one buffer kept in the
\* client, so a call may decode what another call's response left there.
FinishSharedBuffer(c) ==
    /\ pc[c] = "reading"
    /\ \E readOK \in BOOLEAN :
          LET others == {d \in Calls \ {c} : response[d] /= NoResponse}
              buffer == IF others = {} THEN response[c]
                        ELSE response[CHOOSE d \in others : TRUE]
          IN  /\ response' = [response EXCEPT
                                ![c].read = IF readOK THEN "all" ELSE "failed"]
              /\ result' = [result EXCEPT ![c] =
                            EntryReturn(call[c].entry, call[c].target,
                                        OpReturn(call[c].op,
                                                 doRequestReceive(call[c].op, buffer,
                                                                  readOK)))]
    /\ bodyOpen' = [bodyOpen EXCEPT ![c] = FALSE]
    /\ pc' = [pc EXCEPT ![c] = "done"]
    /\ UNCHANGED <<env, newArgs, client, call, request, transportCalls, probe>>

\* The rest of doRequest and of the entry point: io.ReadAll, the status
\* check, the decoding, the deferred resp.Body.Close(), the return.
Finish(c) ==
    /\ pc[c] = "reading"
    /\ \E readOK \in BOOLEAN :
          /\ response' = [response EXCEPT ![c].read = IF readOK THEN "all" ELSE "failed"]
          /\ result' = [result EXCEPT ![c] =
                        EntryReturn(call[c].entry, call[c].target,
                                    OpReturn(call[c].op,
                                             doRequestReceive(call[c].op, response[c],
                                                              readOK)))]
    /\ bodyOpen' = [bodyOpen EXCEPT ![c] = FALSE]
    /\ pc' = [pc EXCEPT ![c] = "done"]
    /\ UNCHANGED <<env, newArgs, client, call, request, transportCalls, probe>>

\* The caller has its result; the goroutine is free for another call.
Return(c) ==
    /\ pc[c] = "done"
    /\ pc' = [pc EXCEPT ![c] = "idle"]
    /\ call' = [call EXCEPT ![c] = NoCall]
    /\ request' = [request EXCEPT ![c] = NoRequest]
    /\ response' = [response EXCEPT ![c] = NoResponse]
    /\ result' = [result EXCEPT ![c] = NoResult]
    /\ transportCalls' = [transportCalls EXCEPT ![c] = 0]
    /\ UNCHANGED <<env, newArgs, client, bodyOpen, probe>>

Next ==
    \E c \in MainCalls :
        \/ Search(c)
        \/ Extract(c)
        \/ Crawl(c)
        \/ Map(c)
        \/ SearchSimple(c)
        \/ SearchWithAnswer(c)
        \/ SearchNews(c)
        \/ ExtractSimple(c)
        \/ ExtractWithImages(c)
        \/ CrawlDocumentation(c)
        \/ MapSite(c)
        \/ GetSearchContext(c)
        \/ DoFails(c)
        \/ DoResponds(c)
        \/ Finish(c)
        \/ Return(c)

Spec == Init /\ [][Next]_vars

\* ------------------------------------------- calls on one shared client

\* Two goroutines call the presets on one client, in any interleaving.
InitConcurrent ==
    /\ env = ""
    /\ newArgs = [apiKey |-> "tvly-key", opts |-> NilOptions(ZeroClientOptions)]
    /\ client = New(newArgs.apiKey, env, newArgs.opts)
    /\ pc = [c \in Calls |-> "idle"]
    /\ call = [c \in Calls |-> NoCall]
    /\ request = [c \in Calls |-> NoRequest]
    /\ response = [c \in Calls |-> NoResponse]
    /\ bodyOpen = [c \in Calls |-> FALSE]
    /\ result = [c \in Calls |-> NoResult]
    /\ transportCalls = [c \in Calls |-> 0]
    /\ probe = NoProbe

NextConcurrent ==
    \E c \in Calls :
        \/ SearchSimple(c)
        \/ MapSite(c)
        \/ DoFails(c)
        \/ DoResponds(c)
        \/ Finish(c)
        \/ Return(c)

SpecConcurrent == InitConcurrent /\ [][NextConcurrent]_vars

\* ------------------------------------------- the status predicates alone

\* An APIError of any status code.
InitClassify ==
    /\ env = ""
    /\ newArgs = [apiKey |-> "tvly-key", opts |-> NilOptions(ZeroClientOptions)]
    /\ client = New(newArgs.apiKey, env, newArgs.opts)
    /\ pc = [c \in Calls |-> "idle"]
    /\ call = [c \in Calls |-> NoCall]
    /\ request = [c \in Calls |-> NoRequest]
    /\ response = [c \in Calls |-> NoResponse]
    /\ bodyOpen = [c \in Calls |-> FALSE]
    /\ result = [c \in Calls |-> NoResult]
    /\ transportCalls = [c \in Calls |-> 0]
    /\ \E code \in 0..MaxStatusCode : probe = [NoProbe EXCEPT !.StatusCode = code]

\* The four predicates are applied to the APIError.
Classify ==
    /\ ~probe.applied
    /\ probe' = [StatusCode |-> probe.StatusCode, applied |-> TRUE,
                 IsUnauthorized |-> IsUnauthorized(probe),
                 IsRateLimit |-> IsRateLimit(probe),
                 IsForbidden |-> IsForbidden(probe),
                 IsBadRequest |-> IsBadRequest(probe)]
    /\ UNCHANGED <<env, newArgs, client, pc, call, request, response, bodyOpen,
                   result, transportCalls>>

NextClassify == Classify

SpecClassify == InitClassify /\ [][NextClassify]_vars

\* ------------------------------------------------------------ properties

\* A call that has been made and whose result has not been taken yet.
Active(c) == pc[c] /= "idle"
Returned(c) == pc[c] = "done"

\* The required argument of the call's operation is empty.
RequiredEmpty(c) ==
    IF call[c].op = "Extract" THEN Len(call[c].target) = 0 ELSE call[c].target = ""

\* Extract, Crawl or Map called with an empty URL list or URL.
EmptyURL(c) == call[c].op \in {"Extract", "Crawl", "Map"} /\ RequiredEmpty(c)

\* The call was given something encoding/json cannot encode.
Unencodable(c) ==
    /\ call[c].op = "Search"
    /\ ~call[c].opts.isNil
    /\ \/ call[c].opts.v.IncludeAnswer.kind = "chan"
       \/ call[c].opts.v.IncludeRawContent.kind = "chan"

\* The *APIError errors.As finds in what the call returned.
Found(c) == ErrorsAs(result[c].err)

\* C1: Extract with an empty URL list, and Crawl and Map with an empty URL,
\* return an APIError of status 400, for which IsBadRequest holds, and
\* httpClient.Do is not called, whatever the client, the context and the
\* options.
C1_EmptyURLIsBadRequest ==
    \A c \in Calls :
        (Active(c) /\ EmptyURL(c)) =>
            /\ Returned(c)
            /\ Found(c).ok
            /\ Found(c).StatusCode = 400
            /\ IsBadRequest(Found(c))
            /\ result[c].resp.isNil
            /\ transportCalls[c] = 0
            /\ request[c] = NoRequest

\* C1 happens: Extract has returned for an empty URL list, on a client with
\* no API key and with a cancelled context.
C1_Witness ==
    \E c \in Calls :
        /\ Returned(c)
        /\ call[c].entry = "Extract"
        /\ Len(call[c].target) = 0
        /\ client.apiKey = ""
        /\ call[c].ctx = "cancelled"
        /\ Found(c).StatusCode = 400

\* The required field of the payload handed to the transport is not empty.
PayloadRequiredNonEmpty(c) ==
    CASE call[c].op = "Search" -> request[c].body["query"] /= ""
      [] call[c].op = "Extract" -> Len(request[c].body["urls"]) > 0
      [] OTHER -> request[c].body["url"] /= ""

\* The call was rejected as a bad request before any network I/O.
RejectedAsBadRequest(c) ==
    /\ Returned(c)
    /\ Found(c).ok
    /\ Found(c).StatusCode = 400
    /\ transportCalls[c] = 0

\* C2 as stated: in all four operations, Search too, the required field of
\* the payload is not empty when the transport is called, and a call with an
\* empty required field fails with status 400 without network I/O.
C2_AsStated ==
    \A c \in Calls :
        Active(c) =>
            /\ transportCalls[c] > 0 => PayloadRequiredNonEmpty(c)
            /\ RequiredEmpty(c) => RejectedAsBadRequest(c)

\* C2 as amended: that holds of Extract, Crawl and Map; Search does not check
\* its query: a Search with an empty query is never rejected as a bad request
\* by the client, and when the transport is called for it the payload holds
\* the empty query.
C2_RequiredFieldExceptSearch ==
    \A c \in Calls :
        Active(c) =>
            /\ (call[c].op /= "Search" /\ transportCalls[c] > 0)
                  => PayloadRequiredNonEmpty(c)
            /\ (call[c].op /= "Search" /\ RequiredEmpty(c))
                  => RejectedAsBadRequest(c)
            /\ (call[c].op = "Search" /\ RequiredEmpty(c))
                  => /\ ~RejectedAsBadRequest(c)
                     /\ transportCalls[c] > 0 => request[c].body["query"] = ""
                     /\ (client.apiKey /= "" /\ ParseableURL(client.baseURL)
                         /\ ~Unencodable(c)) => transportCalls[c] = 1

\* C2 happens: Search was called with an empty query and its request, with
\* the empty query, is with the transport.
C2_Witness ==
    \E c \in Calls :
        /\ pc[c] = "inflight"
        /\ call[c].entry = "Search"
        /\ call[c].target = ""
        /\ request[c].body["query"] = ""

\* C3 as stated: on a client with an empty API key every call, whatever its
\* arguments, returns an APIError of status 401 and the transport is not
\* called.
C3_AsStated ==
    \A c \in Calls :
        (Active(c) /\ client.apiKey = "") =>
            /\ Returned(c)
            /\ Found(c).ok
            /\ Found(c).StatusCode = 401
            /\ IsUnauthorized(Found(c))
            /\ transportCalls[c] = 0

\* C3 as amended: on a client with an empty API key every call returns an
\* APIError and the transport is not called; the status is 401, except for
\* Extract, Crawl and Map called with an empty URL list or URL, which return
\* status 400, their own check being made first.
C3_MissingKeyUnauthorized ==
    \A c \in Calls :
        (Active(c) /\ client.apiKey = "") =>
            /\ Returned(c)
            /\ Found(c).ok
            /\ transportCalls[c] = 0
            /\ result[c].resp.isNil \/ call[c].entry = "GetSearchContext"
            /\ IF EmptyURL(c)
               THEN Found(c).StatusCode = 400 /\ ~IsUnauthorized(Found(c))
               ELSE /\ Found(c).StatusCode = 401
                    /\ IsUnauthorized(Found(c))
                    /\ Found(c).Message = MissingKeyMessage

\* C3 happens: on a client with neither an explicit key nor the environment
\* variable, Crawl has returned 401 for a URL.
C3_Witness ==
    \E c \in Calls :
        /\ Returned(c)
        /\ newArgs.apiKey = "" /\ env = "" /\ client.apiKey = ""
        /\ call[c].entry = "Crawl"
        /\ call[c].target /= ""
        /\ Found(c).StatusCode = 401

\* The error is of the transport category: c.httpClient.Do failed, and the
\* error is no APIError.
IsTransportError(err) == HasLayer(err, "request failed") /\ ~ErrorsAs(err).ok

\* C4 as stated: a call with an already cancelled context returns an error of
\* the transport category, which is no APIError, whatever the client and the
\* arguments.
C4_AsStated ==
    \A c \in Calls :
        (Active(c) /\ call[c].ctx = "cancelled" /\ pc[c] /= "inflight") =>
            /\ Returned(c)
            /\ IsTransportError(result[c].err)

\* C4 as amended: a call with an already cancelled context, made with a
\* non-empty API key, a non-empty URL list or URL and a request that can be
\* built, hands the request to the transport and, the transport refusing a
\* cancelled context as net/http's does, returns an error of the transport
\* category; a call that fails one of these preconditions returns that
\* precondition's error (the 400 or 401 APIError, or the error of building
\* the request) without calling the transport.
C4_CancelledContext ==
    \A c \in Calls :
        (Active(c) /\ call[c].ctx = "cancelled") =>
            /\ pc[c] /= "reading"
            /\ response[c] = NoResponse
            /\ (client.apiKey /= "" /\ ~EmptyURL(c) /\ ~Unencodable(c)
                /\ ParseableURL(client.baseURL)) <=> transportCalls[c] = 1
            /\ (Returned(c) /\ transportCalls[c] = 1)
                  => /\ IsTransportError(result[c].err)
                     /\ result[c].resp.isNil \/ call[c].entry = "GetSearchContext"
            /\ transportCalls[c] = 0
                  => /\ Returned(c)
                     /\ result[c].err /= NoError
                     /\ ~IsTransportError(result[c].err)
                     /\ (EmptyURL(c) \/ client.apiKey = "")
                           <=> Found(c).ok

\* C4 happens: Map, called with a cancelled context on a client with a key,
\* has returned the transport's error.
C4_Witness ==
    \E c \in Calls :
        /\ Returned(c)
        /\ call[c].entry = "Map"
        /\ call[c].ctx = "cancelled"
        /\ transportCalls[c] = 1
        /\ IsTransportError(result[c].err)

\* The categories of an error, each told by what a caller can test: whether
\* errors.As finds an *APIError, and which of doRequest's wraps is in the
\* chain.
Classified(err) == ErrorsAs(err).ok
Transport(err) == HasLayer(err, "request failed")
Contract(err) == HasLayer(err, "failed to unmarshal response")
RequestBuilding(err) ==
    HasLayer(err, "failed to marshal request") \/ HasLayer(err, "failed to create request")
BodyReading(err) == HasLayer(err, "failed to read response")

Count(flags) == Cardinality({i \in 1..Len(flags) : flags[i]})

\* C5 as stated: every error an entry point returns is in exactly one of
\* three categories: classified API error, transport error, contract error.
C5_AsStated ==
    \A c \in Calls :
        (Returned(c) /\ result[c].err /= NoError) =>
            Count(<<Classified(result[c].err), Transport(result[c].err),
                    Contract(result[c].err)>>) = 1

\* C5 as amended: every error an entry point returns is in exactly one of
\* five categories: classified API error (the server answered with another
\* status than 200, or the input or the key was rejected), transport error
\* (httpClient.Do failed, no response obtained), contract error (the body of
\* a 200 response could not be decoded), request error (the payload could not
\* be serialized or the request not be constructed; nothing was sent) and
\* read error (a response was obtained and its body could not be read).
C5_FiveCategories ==
    \A c \in Calls :
        (Returned(c) /\ result[c].err /= NoError) =>
            LET err == result[c].err
            IN  /\ Count(<<Classified(err), Transport(err), Contract(err),
                           RequestBuilding(err), BodyReading(err)>>) = 1
                /\ Classified(err) <=>
                      \/ transportCalls[c] = 0 /\ (EmptyURL(c) \/ client.apiKey = "")
                      \/ response[c].read = "all" /\ response[c].StatusCode /= StatusOK
                /\ Transport(err) <=>
                      transportCalls[c] = 1 /\ response[c] = NoResponse
                /\ Contract(err) <=>
                      /\ response[c].read = "all"
                      /\ response[c].StatusCode = StatusOK
                /\ RequestBuilding(err) <=>
                      /\ transportCalls[c] = 0
                      /\ ~EmptyURL(c)
                      /\ client.apiKey /= ""
                /\ BodyReading(err) <=> response[c].read = "failed"

\* C5 happens: a Search has returned the error of a payload that could not be
\* serialized, which is in none of the three categories.
C5_Witness ==
    \E c \in Calls :
        /\ Returned(c)
        /\ call[c].entry = "Search"
        /\ HasLayer(result[c].err, "failed to marshal request")
        /\ ~Classified(result[c].err)
        /\ ~Transport(result[c].err)
        /\ ~Contract(result[c].err)

\* The call failed on a response of another status than 200, read in full.
FailedByStatus(c) ==
    /\ Returned(c)
    /\ response[c].read = "all"
    /\ response[c].StatusCode /= StatusOK

\* The call failed on the missing API key.
FailedByMissingKey(c) == Returned(c) /\ client.apiKey = "" /\ ~EmptyURL(c)

\* The APIError the call's failure began as.
OriginalAPIError(c) ==
    IF EmptyURL(c) THEN Validate(call[c].op, call[c].target)[1]
    ELSE IF client.apiKey = "" THEN APIErrorOf(401, MissingKeyMessage)[1]
    ELSE parseAPIError(response[c].StatusCode, response[c].body)[1]

\* C6: when the error an entry point returns began as an APIError (of the
\* URL check, of the key check, of a response of another status than 200),
\* errors.As finds an APIError with that StatusCode and that Message in it,
\* whether it was wrapped once, twice (GetSearchContext) or not at all.
C6_APIErrorRecoverable ==
    \A c \in Calls :
        (Returned(c) /\ (EmptyURL(c) \/ FailedByMissingKey(c) \/ FailedByStatus(c))) =>
            /\ Found(c).ok
            /\ Found(c).StatusCode = OriginalAPIError(c).StatusCode
            /\ Found(c).Message = OriginalAPIError(c).Message
            /\ result[c].err[Len(result[c].err)].type = "*APIError"

\* C6 happens: GetSearchContext has returned an error wrapped twice around
\* the APIError of a 401 response, with the server's message.
C6_Witness ==
    \E c \in Calls :
        /\ Returned(c)
        /\ call[c].entry = "GetSearchContext"
        /\ response[c].StatusCode = 401
        /\ Len(result[c].err) = 3
        /\ result[c].err[1].type = "*fmt.wrapError"
        /\ result[c].err[2].type = "*fmt.wrapError"
        /\ Found(c).StatusCode = 401
        /\ Found(c).Message = "Invalid API key provided"

\* C7: as in the README, the error of a call that failed because the server
\* answered with another status than 200, or because the API key is missing,
\* is itself a *APIError: the type assertion err.(*APIError) succeeds.
C7_DirectTypeAssertion ==
    \A c \in Calls :
        (FailedByStatus(c) \/ FailedByMissingKey(c)) =>
            TypeAssertAPIError(result[c].err)

\* Whether json.Unmarshal reads the body as {"detail": {"error": <string>}},
\* any of the keys being optional.
ParsesAsErrorBody(body) ==
    /\ body.syntax = "ok"
    /\ body.detail.kind /= "string"
    /\ body.detail.error.kind \in {"nil", "string"}

\* The Message the claim gives the APIError of a response.
ExpectedMessage(body) ==
    IF ParsesAsErrorBody(body) /\ body.detail.kind = "object"
       /\ body.detail.error.kind = "string" /\ body.detail.error.s /= ""
    THEN body.detail.error.s
    ELSE "unknown error"

\* C8 as stated: for every response of another status than 200 the call
\* returns an APIError with the status of the response and with the body's
\* detail.error as Message, or "unknown error" when the body does not parse
\* or has none; the Message is not empty.
C8_AsStated ==
    \A c \in Calls :
        (Returned(c) /\ response[c] /= NoResponse /\ response[c].StatusCode /= StatusOK) =>
            /\ Found(c).ok
            /\ Found(c).StatusCode = response[c].StatusCode
            /\ Found(c).Message = ExpectedMessage(response[c].body)
            /\ Found(c).Message /= ""

\* C8 as amended: that holds for every response of another status than 200
\* whose body io.ReadAll read without error; when reading the body fails the
\* call returns the read error, which is no APIError.
C8_StatusAndMessage ==
    \A c \in Calls :
        (Returned(c) /\ response[c] /= NoResponse /\ response[c].StatusCode /= StatusOK) =>
            IF response[c].read = "all"
            THEN /\ Found(c).ok
                 /\ Found(c).StatusCode = response[c].StatusCode
                 /\ Found(c).Message = ExpectedMessage(response[c].body)
                 /\ Found(c).Message /= ""
            ELSE /\ ~Found(c).ok
                 /\ BodyReading(result[c].err)

\* C8 happens: a call has returned for a 201 response whose body holds an
\* empty detail.error, with the Message "unknown error".
C8_Witness ==
    \E c \in Calls :
        /\ Returned(c)
        /\ response[c].StatusCode = 201
        /\ response[c].read = "all"
        /\ response[c].body.detail = DetailObject(StrV(""))
        /\ Found(c).StatusCode = 201
        /\ Found(c).Message = "unknown error"

\* C9: IsUnauthorized holds exactly for 401, IsRateLimit exactly for 429,
\* IsForbidden exactly for 403, 432 and 433, IsBadRequest exactly for 400; at
\* most one of the four holds of a status code, and none outside these six.
C9_PredicatesExclusive ==
    probe.applied =>
        /\ probe.IsUnauthorized <=> probe.StatusCode = 401
        /\ probe.IsRateLimit <=> probe.StatusCode = 429
        /\ probe.IsForbidden <=> probe.StatusCode \in {403, 432, 433}
        /\ probe.IsBadRequest <=> probe.StatusCode = 400
        /\ Count(<<probe.IsUnauthorized, probe.IsRateLimit, probe.IsForbidden,
                   probe.IsBadRequest>>) <= 1
        /\ probe.StatusCode \notin {400, 401, 403, 429, 432, 433} =>
              Count(<<probe.IsUnauthorized, probe.IsRateLimit, probe.IsForbidden,
                      probe.IsBadRequest>>) = 0

\* C9 happens: the predicates were applied to status 433, and only
\* IsForbidden holds.
C9_Witness ==
    /\ probe.applied
    /\ probe.StatusCode = 433
    /\ probe.IsForbidden
    /\ ~probe.IsUnauthorized /\ ~probe.IsRateLimit /\ ~probe.IsBadRequest

\* The options the operation works with: the zero options for a nil pointer.
GivenOptions(c, zero) == IF call[c].opts.isNil THEN zero ELSE call[c].opts.v

\* The payload holds value under name, or the default when value is zero.
HoldsOrDefault(body, name, value, zero, default) ==
    /\ name \in DOMAIN body
    /\ body[name] = IF value = zero THEN default ELSE value

\* C10: in the payload of every request, each defaulted field holds the
\* documented default when the option is at its zero value or the options are
\* nil, and exactly the option's value otherwise, negative integers included.
C10_DefaultsSubstituted ==
    \A c \in Calls :
        transportCalls[c] = 1 =>
            LET body == request[c].body
            IN  CASE call[c].op = "Search" ->
                    LET o == GivenOptions(c, ZeroSearchOptions)
                    IN  /\ HoldsOrDefault(body, "search_depth", o.SearchDepth, "", "basic")
                        /\ HoldsOrDefault(body, "topic", o.Topic, "", "general")
                        /\ HoldsOrDefault(body, "max_results", o.MaxResults, 0, 5)
                        /\ HoldsOrDefault(body, "timeout", o.Timeout, 0, 60)
                  [] call[c].op = "Extract" ->
                    LET o == GivenOptions(c, ZeroExtractOptions)
                    IN  /\ HoldsOrDefault(body, "extract_depth", o.ExtractDepth, "", "basic")
                        /\ HoldsOrDefault(body, "format", o.Format, "", "text")
                        /\ HoldsOrDefault(body, "timeout", o.Timeout, 0, 60)
                  [] call[c].op = "Crawl" ->
                    LET o == GivenOptions(c, ZeroCrawlOptions)
                    IN  /\ HoldsOrDefault(body, "max_depth", o.MaxDepth, 0, 1)
                        /\ HoldsOrDefault(body, "max_breadth", o.MaxBreadth, 0, 20)
                        /\ HoldsOrDefault(body, "limit", o.Limit, 0, 50)
                        /\ HoldsOrDefault(body, "extract_depth", o.ExtractDepth, "", "basic")
                        /\ HoldsOrDefault(body, "format", o.Format, "", "text")
                        /\ HoldsOrDefault(body, "timeout", o.Timeout, 0, 60)
                  [] OTHER ->
                    LET o == GivenOptions(c, ZeroMapOptions)
                    IN  /\ HoldsOrDefault(body, "max_depth", o.MaxDepth, 0, 1)
                        /\ HoldsOrDefault(body, "max_breadth", o.MaxBreadth, 0, 20)
                        /\ HoldsOrDefault(body, "limit", o.Limit, 0, 50)
                        /\ HoldsOrDefault(body, "timeout", o.Timeout, 0, 60)

\* C10 happens: the request of a Crawl with a negative max breadth and no
\* limit is with the transport, holding max_breadth -1 and limit 50.
C10_Witness ==
    \E c \in Calls :
        /\ pc[c] = "inflight"
        /\ call[c].entry = "Crawl"
        /\ ~call[c].opts.isNil
        /\ call[c].opts.v.MaxBreadth = -1
        /\ call[c].opts.v.Limit = 0
        /\ request[c].body["max_breadth"] = -1
        /\ request[c].body["limit"] = 50

\* The options the documentation gives each preset, written out field by
\* field.
DocumentedOptions(c) ==
    CASE call[c].entry = "SearchNews" ->
            Options([SearchDepth |-> "advanced", Topic |-> "news", TimeRange |-> "",
                     Days |-> call[c].arg, MaxResults |-> 15, IncludeDomains |-> <<>>,
                     ExcludeDomains |-> <<>>, IncludeAnswer |-> BoolV(TRUE),
                     IncludeRawContent |-> Nil, IncludeImages |-> Nil,
                     IncludeImageDescriptions |-> Nil, MaxTokens |-> 0,
                     ChunksPerSource |-> 0, Country |-> "", Timeout |-> 0])
      [] call[c].entry = "SearchSimple" -> NilOptions(ZeroSearchOptions)
      [] call[c].entry = "SearchWithAnswer" ->
            Options([SearchDepth |-> "", Topic |-> "", TimeRange |-> "",
                     Days |-> 0, MaxResults |-> 10, IncludeDomains |-> <<>>,
                     ExcludeDomains |-> <<>>, IncludeAnswer |-> BoolV(TRUE),
                     IncludeRawContent |-> Nil, IncludeImages |-> Nil,
                     IncludeImageDescriptions |-> Nil, MaxTokens |-> 0,
                     ChunksPerSource |-> 0, Country |-> "", Timeout |-> 0])
      [] OTHER ->
            Options([MaxDepth |-> 2, MaxBreadth |-> 0, Limit |-> 100,
                     Instructions |-> "", SelectPaths |-> <<>>, SelectDomains |-> <<>>,
                     ExcludePaths |-> <<>>, ExcludeDomains |-> <<>>,
                     AllowExternal |-> Nil, Categories |-> <<>>, Timeout |-> 0])

\* What the operation op, called with target and optsArg where call c was
\* made, sends, and what it returns for the answer call c got.
CoreSends(c, op, target, optsArg) ==
    IF Validate(op, target) /= NoError
    THEN [sent |-> FALSE, request |-> NoRequest, err |-> Validate(op, target)]
    ELSE doRequestSend(client, call[c].ctx, Endpoint(op),
                       RequestOf(op, target, optsArg), RequestTags(op))

CoreReturns(c, op, target, optsArg) ==
    LET d == CoreSends(c, op, target, optsArg)
    IN  IF Validate(op, target) /= NoError
        THEN [resp |-> NilResponse, err |-> Validate(op, target)]
        ELSE IF ~d.sent
        THEN OpReturn(op, [err |-> d.err, resp |-> NilResponse])
        ELSE IF response[c] = NoResponse
        THEN OpReturn(op, doRequestFailed)
        ELSE OpReturn(op, doRequestReceive(op, response[c], response[c].read = "all"))

FixedOptionPresets == {"SearchNews", "SearchSimple", "SearchWithAnswer", "MapSite"}

\* C11: SearchNews, SearchSimple, SearchWithAnswer and MapSite send exactly
\* the request Search or Map sends for the documented options, or like it
\* send none, and return what it returns for the same answer.
C11_PresetsAreCoreCalls ==
    \A c \in Calls :
        (Active(c) /\ call[c].entry \in FixedOptionPresets) =>
            LET op == IF call[c].entry = "MapSite" THEN "Map" ELSE "Search"
                core == CoreSends(c, op, call[c].target, DocumentedOptions(c))
            IN  /\ call[c].op = op
                /\ (transportCalls[c] = 1) <=> core.sent
                /\ request[c] = core.request
                /\ Returned(c) =>
                      result[c] = CoreReturns(c, op, call[c].target, DocumentedOptions(c))

\* C11 happens: the request of SearchNews(q, 7) is with the transport and
\* holds the news topic, the advanced depth, 7 days, 15 results and the
\* answer flag.
C11_Witness ==
    \E c \in Calls :
        /\ pc[c] = "inflight"
        /\ call[c].entry = "SearchNews"
        /\ call[c].arg = 7
        /\ request[c].body["topic"] = "news"
        /\ request[c].body["search_depth"] = "advanced"
        /\ request[c].body["days"] = 7
        /\ request[c].body["max_results"] = 15
        /\ request[c].body["include_answer"] = BoolV(TRUE)

\* Call c got a 200 answer whose body was read and does not decode into the
\* response type of its operation.
UndecodableOK(c) ==
    /\ response[c].StatusCode = StatusOK
    /\ response[c].read = "all"
    /\ ~Unmarshal(call[c].op, response[c].body).ok

\* What comes back with an error: a nil pointer, or for GetSearchContext,
\* whose result is a string, the empty string.
NothingReturned(c) ==
    IF call[c].entry = "GetSearchContext"
    THEN result[c].resp = Response("")
    ELSE result[c].resp = NilResponse

\* C12: a 200 answer whose body does not decode gives no response and an
\* error that is no APIError; every call returns a response and no error,
\* or no response and an error.
C12_ResponseOrError ==
    \A c \in Calls :
        Returned(c) =>
            /\ UndecodableOK(c) =>
                  /\ NothingReturned(c)
                  /\ result[c].err /= NoError
                  /\ ~Found(c).ok
                  /\ HasLayer(result[c].err, "failed to unmarshal response")
            /\ \/ result[c].err = NoError /\ ~result[c].resp.isNil
               \/ result[c].err /= NoError /\ NothingReturned(c)

\* C12 happens: Crawl got 200 with a body whose results are no array, and
\* returned.
C12_Witness ==
    \E c \in Calls :
        /\ Returned(c)
        /\ call[c].entry = "Crawl"
        /\ UndecodableOK(c)
        /\ response[c].body.syntax = "ok"
        /\ result[c].resp = NilResponse

\* Call c fails a check made before the transport is reached: the empty
\* URL, the empty key, a payload that does not encode, a URL that does not
\* parse.
RejectedByPrecondition(c) ==
    \/ EmptyURL(c)
    \/ client.apiKey = ""
    \/ Unencodable(c)
    \/ ~ParseableURL(client.baseURL \o Endpoint(call[c].op))

\* C13: a call reaches the transport at most once, whatever comes of it,
\* and not at all when a precondition rejects it.
C13_SingleAttempt ==
    \A c \in Calls :
        /\ transportCalls[c] <= 1
        /\ (Active(c) /\ RejectedByPrecondition(c)) => transportCalls[c] = 0
        /\ (Active(c) /\ ~RejectedByPrecondition(c)) => transportCalls[c] = 1

\* C13 happens: a call whose one attempt failed in the transport has
\* returned its error.
C13_Witness ==
    \E c \in Calls :
        /\ Returned(c)
        /\ transportCalls[c] = 1
        /\ response[c] = NoResponse
        /\ IsTransportError(result[c].err)

\* What call c sent and returned is what its arguments, the client and the
\* answer to its own request give.
OwnOutcome(c) ==
    /\ (Active(c) /\ transportCalls[c] = 1) =>
          request[c] = CoreSends(c, call[c].op, call[c].target, call[c].opts).request
    /\ Returned(c) =>
          result[c] = EntryReturn(call[c].entry, call[c].target,
                                  CoreReturns(c, call[c].op, call[c].target,
                                              call[c].opts))

\* C14: whatever the interleaving of the calls on one client, the client's
\* fields stay as New built them, and what a call sends and returns is given
\* by its arguments, the client and the answer to its own request.
C14_CallsIndependent ==
    /\ client = New(newArgs.apiKey, env, newArgs.opts)
    /\ \A c \in Calls : OwnOutcome(c)

\* C14 happens: two calls with the same arguments were in flight together
\* and returned different results, each from its own answer.
C14_Witness ==
    /\ Returned("g1")
    /\ Returned("g2")
    /\ call["g1"] = call["g2"]
    /\ response["g1"] /= NoResponse
    /\ response["g2"] /= NoResponse
    /\ response["g1"] /= response["g2"]
    /\ result["g1"] /= result["g2"]

\* The base URL the client was configured with: the one given to New, or
\* the default one.
ConfiguredBaseURL ==
    IF newArgs.opts.isNil \/ newArgs.opts.v.BaseURL = <<>>
    THEN <<"https://api.tavily.com">>
    ELSE newArgs.opts.v.BaseURL

\* The base URL with one trailing slash removed.
OneSlashRemoved(base) ==
    IF base /= <<>> /\ base[Len(base)] = "/"
    THEN [i \in 1..(Len(base) - 1) |-> base[i]]
    ELSE base

\* The endpoint of each operation.
EndpointOfOperation(op) ==
    CASE op = "Search" -> <<"/", "search">>
      [] op = "Extract" -> <<"/", "extract">>
      [] op = "Crawl" -> <<"/", "crawl">>
      [] OTHER -> <<"/", "map">>

\* C15: every request that reaches the transport is a POST to the base URL,
\* one trailing slash removed, followed by the endpoint of the operation,
\* and carries the content type, the bearer authorization with the client's
\* API key and the client source header.
C15_RequestShape ==
    \A c \in Calls :
        transportCalls[c] >= 1 =>
            /\ request[c].method = "POST"
            /\ request[c].url =
                  OneSlashRemoved(ConfiguredBaseURL) \o EndpointOfOperation(call[c].op)
            /\ DOMAIN request[c].header =
                  {"Content-Type", "Authorization", "X-Client-Source"}
            /\ request[c].header["Content-Type"] = "application/json"
            /\ request[c].header["Authorization"] = "Bearer " \o client.apiKey
            /\ request[c].header["X-Client-Source"] = "go-tavily"

\* C15 happens: a Crawl request is with the transport for a client built
\* with a base URL ending in two slashes, of which one is left.
C15_Witness ==
    \E c \in Calls :
        /\ pc[c] = "inflight"
        /\ call[c].op = "Crawl"
        /\ newArgs.opts.v.BaseURL = <<"http://srv", "/", "/">>
        /\ request[c].url = <<"http://srv", "/", "/", "crawl">>
        /\ request[c].header["Authorization"] = "Bearer tvly-env-key"

\* Call c got a 200 answer whose body was read and has the shape of the
\* response of its operation.
MatchingOK(c) ==
    /\ response[c].StatusCode = 200
    /\ response[c].read = "all"
    /\ response[c].body.syntax = "ok"
    /\ response[c].body.resultsIsArray
    /\ \A i \in 1..Len(response[c].body.results) :
          response[c].body.results[i].kind =
              (IF call[c].op = "Map" THEN "string" ELSE "object")

\* C16: a 200 answer whose body has the shape of the operation's response
\* gives no error and a response whose fields are the values of the body,
\* with as many results and in the same order.
C16_RoundTrip ==
    \A c \in Calls :
        (Returned(c) /\ call[c].entry /= "GetSearchContext" /\ MatchingOK(c)) =>
            LET body == response[c].body
                r == result[c].resp.v
            IN  /\ result[c].err = NoError
                /\ ~result[c].resp.isNil
                /\ Len(r.Results) = Len(body.results)
                /\ call[c].op = "Search" =>
                      /\ r.Query = body.query
                      /\ r.Answer = body.answer
                      /\ \A i \in 1..Len(body.results) :
                            /\ r.Results[i].Title = body.results[i].title
                            /\ r.Results[i].URL = body.results[i].url
                            /\ r.Results[i].Content = body.results[i].content
                            /\ r.Results[i].RawContent = body.results[i].raw_content
                /\ call[c].op \in {"Extract", "Crawl"} =>
                      \A i \in 1..Len(body.results) :
                          /\ r.Results[i].URL = body.results[i].url
                          /\ r.Results[i].RawContent = body.results[i].raw_content
                /\ call[c].op \in {"Crawl", "Map"} => r.BaseURL = body.base_url
                /\ call[c].op = "Map" =>
                      \A i \in 1..Len(body.results) : r.Results[i] = body.results[i].s

\* C16 happens: Search got a 200 body with two results and returned them,
\* first and second as in the body.
C16_Witness ==
    \E c \in Calls :
        /\ Returned(c)
        /\ call[c].entry = "Search"
        /\ MatchingOK(c)
        /\ Len(response[c].body.results) = 2
        /\ result[c].resp.v.Query = "x"
        /\ result[c].resp.v.Results[1].Title = "T1"
        /\ result[c].resp.v.Results[2].Title = "T2"

\* C17: New always gives a client; its key is the explicit key when that
\* is not empty, whatever the environment holds, and the value of
\* TAVILY_API_KEY otherwise; with both empty the client has the empty key,
\* and only a call is rejected, without reaching the transport.
C17_KeyResolution ==
    /\ DOMAIN client = {"baseURL", "apiKey", "httpClient", "headers"}
    /\ newArgs.apiKey /= "" => client.apiKey = newArgs.apiKey
    /\ newArgs.apiKey = "" => client.apiKey = env
    /\ (newArgs.apiKey = "" /\ env = "") =>
          /\ client.apiKey = ""
          /\ \A c \in Calls :
                /\ transportCalls[c] = 0
                /\ Returned(c) =>
                      /\ Found(c).ok
                      /\ Found(c).StatusCode \in {400, 401}

\* C17 happens: New was given a key while TAVILY_API_KEY held another, and
\* a request with the given key is with the transport.
C17_Witness ==
    /\ newArgs.apiKey = "tvly-key"
    /\ env = "tvly-env-key"
    /\ client.apiKey = "tvly-key"
    /\ \E c \in Calls :
          /\ pc[c] = "inflight"
          /\ request[c].header["Authorization"] = "Bearer tvly-key"

\* The optional boolean options of each operation, with their names in the
\* payload.
OptionalBooleans(op) ==
    CASE op = "Search" ->
            {<<"IncludeAnswer", "include_answer">>,
             <<"IncludeRawContent", "include_raw_content">>,
             <<"IncludeImages", "include_images">>,
             <<"IncludeImageDescriptions", "include_image_descriptions">>}
      [] op = "Extract" -> {<<"IncludeImages", "include_images">>}
      [] op = "Crawl" ->
            {<<"AllowExternal", "allow_external">>,
             <<"IncludeImages", "include_images">>}
      [] OTHER -> {<<"AllowExternal", "allow_external">>}

\* The options call c runs with; the zero options of its operation when
\* they are nil.
OptionsOf(c) ==
    GivenOptions(c, CASE call[c].op = "Search" -> ZeroSearchOptions
                      [] call[c].op = "Extract" -> ZeroExtractOptions
                      [] call[c].op = "Crawl" -> ZeroCrawlOptions
                      [] OTHER -> ZeroMapOptions)

\* C18: in the payload of every request of the four operations, an optional
\* boolean that is nil is left out, one that is true is there as true, and
\* one that is false is there as false.
C18_TriStateBooleans ==
    \A c \in Calls :
        transportCalls[c] = 1 =>
            \A f \in OptionalBooleans(call[c].op) :
                LET v == OptionsOf(c)[f[1]]
                    body == request[c].body
                IN  /\ v.kind = "nil" => f[2] \notin DOMAIN body
                    /\ v.kind = "bool" =>
                          /\ f[2] \in DOMAIN body
                          /\ body[f[2]].kind = "bool"
                          /\ body[f[2]].b = v.b

\* C18 happens: a Search with IncludeAnswer false and IncludeImages nil is
\* with the transport, include_answer false in its payload and
\* include_images not in it.
C18_Witness ==
    \E c \in Calls :
        /\ pc[c] = "inflight"
        /\ call[c].entry = "Search"
        /\ ~call[c].opts.isNil
        /\ call[c].opts.v.IncludeAnswer = BoolV(FALSE)
        /\ call[c].opts.v.IncludeImages = Nil
        /\ "include_answer" \in DOMAIN request[c].body
        /\ request[c].body["include_answer"] = BoolV(FALSE)
        /\ "include_images" \notin DOMAIN request[c].body

\* C19: the body of a response the transport returned is open only while
\* the call reads it; it is closed when the call has returned, whether the
\* reading failed, the status was not 200, the decoding failed or all went
\* well.
C19_BodyClosed ==
    \A c \in Calls :
        /\ bodyOpen[c] => pc[c] = "reading"
        /\ pc[c] = "reading" => bodyOpen[c]

\* C19 happens: a call whose reading of the response body failed has
\* returned, and the body is closed.
C19_Witness ==
    \E c \in Calls :
        /\ Returned(c)
        /\ response[c].read = "failed"
        /\ HasLayer(result[c].err, "failed to read response")
        /\ ~bodyOpen[c]

\* Extract runs in call c, through ExtractSimple or not, with a list that
\* is not empty and holds an empty URL.
HoldsEmptyURL(c) ==
    /\ Active(c)
    /\ call[c].op = "Extract"
    /\ Len(call[c].target) > 0
    /\ \E i \in 1..Len(call[c].target) : call[c].target[i] = ""

\* The request of call c is with the transport, the list as it was given in
\* its payload, and the call does not fail as a bad request.
SentWithEmptyURL(c) ==
    /\ transportCalls[c] = 1
    /\ request[c].body["urls"] = call[c].target
    /\ Returned(c) => ~(Found(c).ok /\ IsBadRequest(Found(c)) /\ response[c] = NoResponse)

\* C20 as stated: with a key that is not empty, an Extract whose list holds
\* an empty URL always reaches the transport.
C20_AsStated ==
    \A c \in Calls :
        (HoldsEmptyURL(c) /\ client.apiKey /= "") => SentWithEmptyURL(c)

\* C20: ExtractSimple gives Extract a list of one element; an Extract whose
\* list is not empty and holds an empty URL is not rejected as a bad
\* request, and with a key that is not empty and a base URL that parses its
\* request reaches the transport with the empty URL in the payload; with a
\* base URL that does not parse it fails in building the request.
C20_EmptyURLNotValidated ==
    \A c \in Calls :
        /\ (Active(c) /\ call[c].entry = "ExtractSimple") => Len(call[c].target) = 1
        /\ HoldsEmptyURL(c) =>
              /\ (Returned(c) /\ transportCalls[c] = 0) =>
                    ~(Found(c).ok /\ IsBadRequest(Found(c)))
              /\ (client.apiKey /= ""
                  /\ ParseableURL(client.baseURL \o Endpoint(call[c].op))) =>
                    SentWithEmptyURL(c)
              /\ (client.apiKey /= ""
                  /\ ~ParseableURL(client.baseURL \o Endpoint(call[c].op))) =>
                    /\ transportCalls[c] = 0
                    /\ Returned(c) => HasLayer(result[c].err, "failed to create request")

\* C20 happens: the request of ExtractSimple("") is with the transport,
\* the empty URL the one element of its list.
C20_Witness ==
    \E c \in Calls :
        /\ pc[c] = "inflight"
        /\ call[c].entry = "ExtractSimple"
        /\ call[c].target = <<"">>
        /\ client.apiKey /= ""
        /\ request[c].body["urls"] = <<"">>

\* C21: in the payload of a request of CrawlDocumentation(url, n), limit is
\* 50 when n is 0 and n otherwise, max_depth is 3 and allow_external is
\* there as false; the payload of SearchNews(q, 0) has no days and that of
\* GetSearchContext(q, 0) no max_tokens.
C21_PresetZeroMeansUnset ==
    \A c \in Calls :
        transportCalls[c] = 1 =>
            LET body == request[c].body
                n == call[c].arg
            IN  /\ call[c].entry = "CrawlDocumentation" =>
                      /\ "limit" \in DOMAIN body
                      /\ body["limit"] = IF n = 0 THEN 50 ELSE n
                      /\ "max_depth" \in DOMAIN body
                      /\ body["max_depth"] = 3
                      /\ "allow_external" \in DOMAIN body
                      /\ body["allow_external"] = [kind |-> "bool", b |-> FALSE, s |-> ""]
                /\ (call[c].entry = "SearchNews" /\ n = 0) =>
                      "days" \notin DOMAIN body
                /\ (call[c].entry = "GetSearchContext" /\ n = 0) =>
                      "max_tokens" \notin DOMAIN body

\* C21 happens: the request of CrawlDocumentation(url, 0) is with the
\* transport, its limit 50.
C21_Witness ==
    \E c \in Calls :
        /\ pc[c] = "inflight"
        /\ call[c].entry = "CrawlDocumentation"
        /\ call[c].arg = 0
        /\ request[c].body["limit"] = 50
        /\ request[c].body["max_depth"] = 3

====
